---- MODULE Spec2Model ----
(***************************************************************************)
(* A model of the code-execution sandbox of TGBot-PythonDOCS:              *)
(*   src/bot.py             handle_code, safe_exec, _run_code_in_sandbox,  *)
(*                          delete_files_after_delay                       *)
(*   src/sandbox_runner.py  safe_import, main                              *)
(* Module names and file names are sequences of one-character strings, so  *)
(* that split('.'), basename, lower and endswith are computed.             *)
(***************************************************************************)
EXTENDS Integers, Sequences, FiniteSets, TLC

VARIABLES
    gImpl,      \* import gate under test: "bot" or "runner"
    gName,      \* the dotted name of the import request
    gFromlist,  \* the fromlist of the import request (a set of attribute names)
    gResult,    \* what safe_import produced for it, <<>> before the call
    script,     \* script[j]: the source text submitted as job j
    opc,        \* opc[j]: position of handle_code / safe_exec for job j
    loop,       \* the job whose coroutine holds the event-loop thread, 0 if none
    alive,      \* alive[j]: the worker process of job j is running
    wout,       \* wout[j]: <<>> until the worker's target function has run, then
                \* <<its outcome>> (what it sent, raised, left behind)
    pipe,       \* pipe[j]: messages written to the job's result pipe, unread
    pending,    \* pending[j]: the value of a return statement whose finally runs
    result,     \* result[j]: sequence of values safe_exec returned to handle_code
    waited,     \* waited[j]: seconds spent in the current (or last) timed wait
    signals,    \* signals[j]: the signals safe_exec has sent, in order, each with
                \* the seconds waited before it and whether proc was running
    finalAlive, \* finalAlive[j]: "running"/"stopped": proc when safe_exec returned
    answers,    \* answers[j]: what handle_code sent to the chat, in order
    tasks,      \* deferred deletions created with asyncio.create_task
    cImpl,      \* a single call under study: "bot" (bot.py) or "runner"
                \* (sandbox_runner.py)
    cArg,       \* its argument: a writer call or the script of a worker run
    cRet,       \* what the call produced, <<>> before the call
    disk,       \* disk[j]: the names of the files in the directory of job j
    ranTasks,   \* the deferred deletions that have run
    status,     \* status[u]: the status column of user u's row in the users
                \* table, "none" when there is no row
    seen,       \* seen[j]: the sender of job j's message and the row status
                \* handle_code found for it, <<>> before
    buttons,    \* the action buttons of the user menus rendered so far
    lastAct     \* the admin action handled last, <<>> before the first

gateVars == <<gImpl, gName, gFromlist, gResult>>
jobVars  == <<script, opc, loop, alive, wout, pipe, pending, result, waited,
              signals, finalAlive, answers, tasks>>
callVars == <<cImpl, cArg, cRet>>
fsVars   == <<disk, ranTasks>>
userVars == <<status, seen, buttons, lastAct>>
vars     == <<gateVars, jobVars, callVars, fsVars, userVars>>

-----------------------------------------------------------------------------
(* Module names *)

n_random     == <<"r","a","n","d","o","m">>
n_datetime   == <<"d","a","t","e","t","i","m","e">>
n_re         == <<"r","e">>
n_json       == <<"j","s","o","n">>
n_math       == <<"m","a","t","h">>
n_textwrap   == <<"t","e","x","t","w","r","a","p">>
n_base64     == <<"b","a","s","e","6","4">>
n_io         == <<"i","o">>
n_os_path    == <<"o","s",".","p","a","t","h">>
n_subprocess == <<"s","u","b","p","r","o","c","e","s","s">>
n_socket     == <<"s","o","c","k","e","t">>
n_os         == <<"o","s">>
n_sys        == <<"s","y","s">>
n_types      == <<"t","y","p","e","s">>
n_traceback  == <<"t","r","a","c","e","b","a","c","k">>
n_json_decoder == <<"j","s","o","n",".","d","e","c","o","d","e","r">>
n_urllib     == <<"u","r","l","l","i","b">>
n_pathlib    == <<"p","a","t","h","l","i","b">>
n_builtins   == <<"b","u","i","l","t","i","n","s">>
n_nosuchmod  == <<"n","o","s","u","c","h","m","o","d">>
n_socket_foo == <<"s","o","c","k","e","t",".","f","o","o">>

\* bot.py: the allow-list of the import gate.
ALLOWED_MODULES ==
    { n_random, n_datetime, n_re, n_json, n_math, n_textwrap, n_base64, n_io,
      n_os_path,
      <<"d","o","c","x">>,                                        \* docx
      <<"p","p","t","x">>,                                        \* pptx
      <<"r","e","p","o","r","t","l","a","b">>,                \* reportlab
      <<"P","I","L">>,                                            \* PIL
      <<"r","e","q","u","e","s","t","s">> }                   \* requests

\* sandbox_runner.py: the deny-list of the import gate.
FORBIDDEN_MODULES ==
    { n_subprocess, n_socket,
      <<"t","h","r","e","a","d","i","n","g">>,                    \* threading
      <<"m","u","l","t","i","p","r","o","c","e","s","s","i","n","g">>,  \* multiprocessing
      <<"i","n","s","p","e","c","t">>,                            \* inspect
      <<"p","i","c","k","l","e">>,                                \* pickle
      <<"s","h","u","t","i","l">>,                                \* shutil
      <<"c","t","y","p","e","s">>,                                \* ctypes
      <<"c","o","d","e">>,                                        \* code
      <<"c","o","m","p","i","l","e">>,                            \* compile
      <<"e","x","e","c">>,                                        \* exec
      <<"e","v","a","l">>,                                        \* eval
      <<"_","_","i","m","p","o","r","t","_","_">>,                \* __import__
      <<"r","u","n","p","y">>,                                    \* runpy
      <<"i","m","p","o","r","t","l","i","b",".","u","t","i","l">> }  \* importlib.util

-----------------------------------------------------------------------------
(* Python's import machinery, as far as the gates use it *)

\* Depth of nested safe_import calls after which Python raises RecursionError
\* (sys.getrecursionlimit() in the interpreter; a small bound here).
RecursionLimit == 3

\* Modules the worker's interpreter can import: already loaded in the worker
\* (os, sys, types, io, json, ...) or found on its path without further imports.
Importable ==
    { n_os, n_os_path, n_sys, n_types, n_traceback, n_io, n_json, n_json_decoder,
      n_random, n_datetime, n_re, n_math, n_textwrap, n_base64,
      n_socket, n_subprocess, n_urllib, n_pathlib, n_builtins }

\* name.split('.')[0]
SplitFirst(name) ==
    LET dots == { i \in 1..Len(name) : name[i] = "." }
        cut  == IF dots = {} THEN Len(name) + 1
                ELSE CHOOSE i \in dots : \A k \in dots : i <= k
    IN  SubSeq(name, 1, cut - 1)

ModuleObj(name) == [name |-> name, kind |-> "module"]
Raised(exc, about) == [kind |-> "raise", exc |-> exc, about |-> about]
IsRaise(r) == r.kind = "raise"

\* types.SimpleNamespace() with the single attribute path = real_os.path
FakeOs == [kind |-> "namespace", attrs |-> {"path"}]

\* SafeSys(real_sys)
SafeSysObj == [kind |-> "SafeSys", attrs |-> {"argv", "path", "modules", "version", "platform"}]

\* builtins.__import__ before it is replaced: with an empty fromlist the
\* statement `import a.b` gets the top-level package a, with a fromlist the
\* module a.b itself; an unknown module raises ModuleNotFoundError.
original_import(name, fromlist) ==
    IF name \notin Importable THEN Raised("ModuleNotFoundError", name)
    ELSE IF fromlist = {} THEN ModuleObj(SplitFirst(name))
    ELSE ModuleObj(name)

-----------------------------------------------------------------------------
(* The two import gates.  An import statement inside safe_import looks up     *)
(* builtins.__import__ again, which by then is safe_import itself: depth      *)
(* counts the nested calls.                                                   *)

RECURSIVE bot_safe_import(_, _, _)
bot_safe_import(name, fromlist, depth) ==
    IF depth > RecursionLimit THEN Raised("RecursionError", name)
    ELSE IF name = n_os THEN
        \* import types ; import os as real_os
        LET r1 == bot_safe_import(n_types, {}, depth + 1) IN
        IF IsRaise(r1) THEN r1
        ELSE LET r2 == bot_safe_import(n_os, {}, depth + 1) IN
             IF IsRaise(r2) THEN r2 ELSE FakeOs
    ELSE IF SplitFirst(name) \notin ALLOWED_MODULES THEN Raised("ImportError", name)
    ELSE original_import(name, fromlist)

RECURSIVE runner_safe_import(_, _, _)
runner_safe_import(name, fromlist, depth) ==
    IF depth > RecursionLimit THEN Raised("RecursionError", name)
    ELSE IF SplitFirst(name) \in FORBIDDEN_MODULES THEN Raised("ImportError", name)
    ELSE IF name = n_sys THEN
        \* import sys as real_sys
        LET r == runner_safe_import(n_sys, {}, depth + 1) IN
        IF IsRaise(r) THEN r ELSE SafeSysObj
    ELSE IF name = n_os THEN
        \* import types, os as real_os
        LET r1 == runner_safe_import(n_types, {}, depth + 1) IN
        IF IsRaise(r1) THEN r1
        ELSE LET r2 == runner_safe_import(n_os, {}, depth + 1) IN
             IF IsRaise(r2) THEN r2 ELSE FakeOs
    ELSE original_import(name, fromlist)

\* The gate a script's import statement reaches once the worker installed it.
Gate(impl, name, fromlist) ==
    IF impl = "bot" THEN bot_safe_import(name, fromlist, 1)
    ELSE runner_safe_import(name, fromlist, 1)

-----------------------------------------------------------------------------
(* File names *)

e_docx == <<".","d","o","c","x">>
e_pptx == <<".","p","p","t","x">>
e_pdf  == <<".","p","d","f">>
e_png  == <<".","p","n","g">>
e_jpg  == <<".","j","p","g">>
e_jpeg == <<".","j","p","e","g">>

f_out_pdf   == <<"o","u","t",".","p","d","f">>
f_a_docx    == <<"a",".","d","o","c","x">>
f_up_ev_pdf == <<".",".","/","e","v",".","p","d","f">>
f_x_sh      == <<"x",".","s","h">>

\* The file name used as it was given, directories included.
basename_Whole(fn) == fn

\* os.path.basename: what follows the last '/'
basename(fn) ==
    LET seps == { i \in 1..Len(fn) : fn[i] = "/" }
        last == IF seps = {} THEN 0 ELSE CHOOSE i \in seps : \A k \in seps : k <= i
    IN  SubSeq(fn, last + 1, Len(fn))

LowerChar(c) ==
    CASE c = "A" -> "a" [] c = "C" -> "c" [] c = "D" -> "d" [] c = "F" -> "f"
      [] c = "G" -> "g" [] c = "J" -> "j" [] c = "N" -> "n" [] c = "O" -> "o"
      [] c = "P" -> "p" [] c = "T" -> "t" [] c = "X" -> "x" [] c = "U" -> "u"
      [] c = "E" -> "e" [] c = "S" -> "s"
      [] OTHER -> c

\* str.lower
lower(s) == [i \in 1..Len(s) |-> LowerChar(s[i])]

\* str.endswith with a tuple of suffixes
endswith(s, suffixes) ==
    \E suf \in suffixes :
        /\ Len(suf) <= Len(s)
        /\ SubSeq(s, Len(s) - Len(suf) + 1, Len(s)) = suf

\* Path.suffix: from the last '.' of the final component, empty when there is
\* none or when the only '.' leads the name
suffix(name) ==
    LET dots == { i \in 2..Len(name) : name[i] = "." }
    IN  IF dots = {} \/ name[Len(name)] = "." THEN <<>>
        ELSE SubSeq(name, CHOOSE i \in dots : \A k \in dots : k <= i, Len(name))

\* A file of job j's directory temp_subdir, by its name in that directory.
PathIn(j, name) == [name |-> name, dir |-> j]

\* The extension tuples of the three wrapped writers of bot.py.
DocSaveExts    == {e_docx, e_pdf, e_pptx, e_png, e_jpg, e_jpeg}
PptxSaveExts   == {e_pptx, e_pdf}
CanvasInitExts == {e_pdf}

\* patched_doc_save / patched_pptx_save / patched_canvas_init: the name the
\* real writer is called with, or the ValueError raised instead.
patched_doc_save(fn) ==
    LET safe_name == basename(fn) IN
    IF ~endswith(lower(safe_name), DocSaveExts)
    THEN Raised("ValueError", fn) ELSE [name |-> safe_name, kind |-> "write"]

patched_pptx_save(fn) ==
    LET safe_name == basename(fn) IN
    IF ~endswith(lower(safe_name), PptxSaveExts)
    THEN Raised("ValueError", fn) ELSE [name |-> safe_name, kind |-> "write"]

patched_canvas_init(fn) ==
    LET safe_name == basename(fn) IN
    IF ~endswith(lower(safe_name), CanvasInitExts)
    THEN Raised("ValueError", fn) ELSE [name |-> safe_name, kind |-> "write"]

PatchedSave(writer, fn) ==
    CASE writer = "doc"    -> patched_doc_save(fn)
      [] writer = "pptx"   -> patched_pptx_save(fn)
      [] writer = "canvas" -> patched_canvas_init(fn)

-----------------------------------------------------------------------------
(* The wrapped writers on their own: the path the real writer gets *)

\* The segments of a path string between its '/' characters.
RECURSIVE Segments(_)
Segments(s) ==
    LET seps == { i \in 1..Len(s) : s[i] = "/" } IN
    IF seps = {} THEN <<s>>
    ELSE LET i == CHOOSE x \in seps : \A k \in seps : x <= k
         IN  <<SubSeq(s, 1, i - 1)>> \o Segments(SubSeq(s, i + 1, Len(s)))

RECURSIVE JoinSegments(_, _)
JoinSegments(path, segs) ==
    IF segs = <<>> THEN path
    ELSE IF Head(segs) \in {<<>>, <<".">>} THEN JoinSegments(path, Tail(segs))
    ELSE JoinSegments(path \o <<"/">> \o Head(segs), Tail(segs))

\* str(safe_temp / safe_name) with pathlib on POSIX: an absolute right-hand
\* side replaces the left one, empty and '.' segments are dropped, '..' is
\* kept as it is.
full_path(safe_temp, safe_name) ==
    IF safe_name # <<>> /\ safe_name[1] = "/" THEN safe_name
    ELSE JoinSegments(safe_temp, Segments(safe_name))

\* sandbox_runner.py: the three functions named patched, in the order docx,
\* pptx, reportlab; each gives the base name the real writer is called with
\* under temp_dir, or the ValueError raised instead.
runner_patched_docx(fn) ==
    LET fn2 == basename(fn) IN
    IF ~endswith(lower(fn2), {e_docx, e_pdf, e_pptx, e_png, e_jpg, e_jpeg})
    THEN Raised("ValueError", fn) ELSE [name |-> fn2, kind |-> "write"]

runner_patched_pptx(fn) ==
    LET fn2 == basename(fn) IN
    IF ~endswith(lower(fn2), {e_pptx, e_pdf})
    THEN Raised("ValueError", fn) ELSE [name |-> fn2, kind |-> "write"]

runner_patched_canvas(fn) ==
    LET fn2 == basename(fn) IN
    IF ~endswith(lower(fn2), {e_pdf})
    THEN Raised("ValueError", fn) ELSE [name |-> fn2, kind |-> "write"]

RunnerPatchedSave(writer, fn) ==
    CASE writer = "doc"    -> runner_patched_docx(fn)
      [] writer = "pptx"   -> runner_patched_pptx(fn)
      [] writer = "canvas" -> runner_patched_canvas(fn)

\* A call of a wrapped writer with directory temp: the ValueError it raises or
\* the path string it hands to the original writer.
WriterCall(impl, temp, writer, fn) ==
    LET r == IF impl = "bot" THEN PatchedSave(writer, fn)
             ELSE RunnerPatchedSave(writer, fn)
    IN  IF IsRaise(r) THEN r
        ELSE [kind |-> "write", path |-> full_path(temp, r.name)]

\* temp_subdir of one job: TEMP_DIR / f"{user_id}_{uuid4().hex}"
JobDirStr == <<"t","e","m","p","_","f","i","l","e","s","/","7","_","a","1">>

\* File names a script may pass to a writer.
FileNames ==
    { f_out_pdf, f_a_docx, f_up_ev_pdf, f_x_sh,
      <<"O","U","T",".","P","D","F">>,                   \* OUT.PDF
      <<"s",".","p","p","t","x">>,                       \* s.pptx
      <<"p",".","p","n","g">>,                           \* p.png
      <<".",".">>,                                       \* ..
      <<"d","/">>,                                       \* d/
      <<"/","e","t","c","/","e","v",".","p","d","f">>,   \* /etc/ev.pdf
      <<".",".","/",".",".","/","x",".","d","o","c","x">>, \* ../../x.docx
      <<".","p","d","f">>,                               \* .pdf
      <<".">>,                                           \* .
      <<"a","/",".",".","p","d","f">>,                   \* a/..pdf
      <<"s",".","P","p","T","x">>,                       \* s.PpTx
      <<"j",".","j","p","e","g">>,                       \* j.jpeg
      <<"a",".","p","d","f",".","s","h">>,               \* a.pdf.sh
      <<"p","d","f">> }                                   \* pdf

Writers == {"doc", "pptx", "canvas"}

-----------------------------------------------------------------------------
(* Scripts.  A script is a sequence of statements:                          *)
(*   [op |-> "import", name, fromlist]   import name / from name import ... *)
(*   [op |-> "save", writer, fn]         a save through a wrapped writer    *)
(*   [op |-> "raise"]                    raise an Exception                 *)
(*   [op |-> "exit"]                     raise SystemExit                   *)
(*   [op |-> "loop"]                     while True: pass                   *)
(*   [op |-> "open", name]               open(<job dir>/name, 'w').close()  *)
(*   [op |-> "print"]                    print(...), a line on stdout       *)

StmtImport(name)     == [name |-> name, fromlist |-> {}, op |-> "import"]
StmtSave(writer, fn) == [fn |-> fn, writer |-> writer, op |-> "save"]
StmtRaise            == [op |-> "raise"]
StmtExit             == [op |-> "exit"]
StmtLoop             == [op |-> "loop"]
StmtOpen(name)       == [name |-> name, op |-> "open"]
StmtPrint            == [op |-> "print"]

\* raise E(msg) for a class E the script defines: the class name and the
\* message are the script's choice.
StmtRaiseOf(name, msg) == [name |-> name, op |-> "raise", msg |-> msg]

\* The exception a raise statement of a script raises.
RaisedBy(st) ==
    IF "name" \in DOMAIN st
    THEN [name |-> st.name, kind |-> "raise", exc |-> "user", about |-> st.msg]
    ELSE [kind |-> "raise", exc |-> "Exception", about |-> <<>>]

\* exec(code, sandbox_globals) in the bot.py worker: the statements run in
\* order from directory contents fs, until one raises, exits or never returns.
RECURSIVE bot_exec(_, _)
bot_exec(code, fs) ==
    IF code = <<>> THEN [fs |-> fs, how |-> "completed"]
    ELSE LET st == Head(code) IN
         CASE st.op = "import" ->
                LET r == bot_safe_import(st.name, st.fromlist, 1) IN
                IF IsRaise(r) THEN [exc |-> r, fs |-> fs, how |-> "raised"]
                ELSE bot_exec(Tail(code), fs)
           [] st.op = "save" ->
                LET r == PatchedSave(st.writer, st.fn) IN
                IF IsRaise(r) THEN [exc |-> r, fs |-> fs, how |-> "raised"]
                ELSE bot_exec(Tail(code), fs \cup {r.name})
           [] st.op = "raise" ->
                [exc |-> RaisedBy(st), fs |-> fs, how |-> "raised"]
           [] st.op = "exit" -> [fs |-> fs, how |-> "exit"]
           [] st.op = "loop" -> [fs |-> fs, how |-> "loops"]
           [] st.op = "open" -> bot_exec(Tail(code), fs \cup {st.name})
           [] st.op = "print" -> bot_exec(Tail(code), fs)

-----------------------------------------------------------------------------
(* Python values: lists and strings *)

\* A Python list and a Python str; both support len() and [0].
List(items) == [list |-> items]
Str(chars)  == [str |-> chars]
IsList(v)   == "list" \in DOMAIN v

\* type(e).__name__, character by character
ExcName(e) ==
    CASE e.exc = "user" -> e.name
      [] e.exc = "ImportError" -> <<"I","m","p","o","r","t","E","r","r","o","r">>
      [] e.exc = "ValueError"  -> <<"V","a","l","u","e","E","r","r","o","r">>
      [] e.exc = "RecursionError" ->
            <<"R","e","c","u","r","s","i","o","n","E","r","r","o","r">>
      [] e.exc = "ModuleNotFoundError" ->
            <<"M","o","d","u","l","e","N","o","t","F","o","u","n","d","E","r","r","o","r">>
      [] OTHER -> <<"E","x","c","e","p","t","i","o","n">>

\* str(e): the gate's ImportError message ends in the requested name; the
\* fixed parts of a message are one element each.
ExcStr(e) ==
    CASE e.exc = "user" -> e.about
      [] e.exc = "ImportError" -> <<"import forbidden: ">> \o e.about
      [] e.exc = "ModuleNotFoundError" -> <<"No module named ">> \o e.about
      [] e.exc = "ValueError"  -> <<"only the permitted extensions are allowed">>
      [] e.exc = "RecursionError" -> <<"maximum recursion depth exceeded">>
      [] OTHER -> <<>>

\* f"{type(e).__name__}: {str(e)}\n\n{traceback.format_exc(limit=3)}"
bot_diagnostic(e) ==
    Str(ExcName(e) \o <<":", " ">> \o ExcStr(e) \o <<"\n", "\n">> \o <<"traceback(limit=3)">>)

-----------------------------------------------------------------------------
(* The worker of bot.py *)

\* The extensions the collection step of bot.py keeps.
CollectExts == {e_docx, e_pptx, e_pdf, e_png, e_jpg, e_jpeg}

\* Some enumeration of a finite set (iterdir gives no particular order).
RECURSIVE SetToSeq(_)
SetToSeq(S) ==
    IF S = {} THEN <<>>
    ELSE LET x == CHOOSE y \in S : TRUE IN <<x>> \o SetToSeq(S \ {x})

\* generated_files: the files of temp_subdir whose suffix is permitted
generated_files(j, fs) ==
    SetToSeq({ PathIn(j, name) : name \in { n \in fs : lower(suffix(n)) \in CollectExts } })

\* The modules put into sandbox_globals with __import__(mod), in order.
GlobalsMods == <<n_random, n_datetime, n_re, n_json, n_math, n_textwrap, n_base64>>

\* The first import of a sequence of names that raises under the installed
\* gate, or <<>> when none does.
RECURSIVE FirstRaise(_)
FirstRaise(names) ==
    IF names = <<>> THEN <<>>
    ELSE LET r == bot_safe_import(Head(names), {}, 1) IN
         IF IsRaise(r) THEN <<r>> ELSE FirstRaise(Tail(names))

\* result_pipe.send(obj): the pickled object as one message on the pipe
Send(obj) == [bytes |-> "pickle", value |-> obj]

\* The except-Exception handler of _run_code_in_sandbox: `import traceback`
\* runs under the installed gate; when that import raises, the handler is
\* left by the new exception and nothing is sent.
bot_handler(e) ==
    LET r == bot_safe_import(n_traceback, {}, 1) IN
    IF IsRaise(r) THEN [sent |-> <<>>, escaped |-> <<r>>]
    ELSE [sent |-> <<Send(<<"error", bot_diagnostic(e)>>)>>,
          escaped |-> <<>>]

\* The libraries behind the three writers.  Under either gate their modules
\* cannot be loaded: loading them runs `import os`, which the gates turn into
\* an exception, so none of them is in Importable.
WriterLib(writer) ==
    CASE writer = "doc"    -> <<"d","o","c","x">>
      [] writer = "pptx"   -> <<"p","p","t","x">>
      [] writer = "canvas" -> <<"r","e","p","o","r","t","l","a","b">>

\* What the worker has installed when it is done with its setup: the gate
\* (bot.py:114, sandbox_runner.py:64), the writers whose try block ran to its
\* end (a failed import is passed over by `except: pass`), and whether the
\* script was executed after it.
Wrapped(impl) ==
    { w \in {"doc", "pptx", "canvas"} : ~IsRaise(Gate(impl, WriterLib(w), {"attr"})) }

SetupDone(impl, ran) ==
    [ran |-> ran, gate |-> TRUE, wrapped |-> IF ran THEN Wrapped(impl) ELSE {}]

\* _run_code_in_sandbox(code, temp_subdir, result_pipe) for job j, from an
\* empty temp_subdir: what it sends on the pipe, the files it leaves, the
\* exception that leaves the function (escaped), whether the function ends,
\* and where an exception was first raised ("setup", "script" or "none").
run_code_in_sandbox(code, j) ==
    LET setup == FirstRaise(<<n_io, n_os>> \o GlobalsMods) IN
    IF setup # <<>>
    THEN LET h == bot_handler(setup[1]) IN
         [fs |-> {}, sent |-> h.sent, escaped |-> h.escaped,
          setup |-> SetupDone("bot", FALSE),
          ends |-> TRUE, raisedIn |-> "setup",
          collected |-> FALSE]
    ELSE LET x == bot_exec(code, {}) IN
         CASE x.how = "completed" ->
                [fs |-> x.fs, sent |-> <<Send(<<"success", List(generated_files(j, x.fs))>>)>>,
                 escaped |-> <<>>, setup |-> SetupDone("bot", TRUE), ends |-> TRUE,
                 raisedIn |-> "none",
                 collected |-> TRUE]
           [] x.how = "raised" ->
                LET h == bot_handler(x.exc) IN
                [fs |-> x.fs, sent |-> h.sent, escaped |-> h.escaped,
                 setup |-> SetupDone("bot", TRUE),
                 ends |-> TRUE, raisedIn |-> "script",
                 collected |-> FALSE]
           [] x.how = "exit" ->
                [fs |-> x.fs, sent |-> <<>>, escaped |-> <<Raised("SystemExit", <<>>)>>,
                 setup |-> SetupDone("bot", TRUE), ends |-> TRUE, raisedIn |-> "none",
                 collected |-> FALSE]
           [] x.how = "loops" ->
                [fs |-> x.fs, sent |-> <<>>, escaped |-> <<>>,
                 setup |-> SetupDone("bot", TRUE),
                 ends |-> FALSE, raisedIn |-> "none",
                 collected |-> FALSE]

-----------------------------------------------------------------------------
(* The worker of sandbox_runner.py: main(), with temp_dir the directory of  *)
(* job j and the script read from code_file.  Its result channel is stdout. *)

\* print(...): one write to standard output
Stdout(kind, obj) == [bytes |-> kind, value |-> obj]

\* exec(code, g) in sandbox_runner.py: as bot_exec, under the runner's gate;
\* out collects what the script itself prints.
RECURSIVE runner_exec(_, _, _)
runner_exec(code, fs, out) ==
    IF code = <<>> THEN [fs |-> fs, how |-> "completed", out |-> out]
    ELSE LET st == Head(code) IN
         CASE st.op = "import" ->
                LET r == runner_safe_import(st.name, st.fromlist, 1) IN
                IF IsRaise(r) THEN [exc |-> r, fs |-> fs, how |-> "raised", out |-> out]
                ELSE runner_exec(Tail(code), fs, out)
           [] st.op = "save" ->
                LET m == runner_safe_import(WriterLib(st.writer), {"attr"}, 1)
                    r == IF IsRaise(m) THEN m ELSE RunnerPatchedSave(st.writer, st.fn)
                IN  IF IsRaise(r) THEN [exc |-> r, fs |-> fs, how |-> "raised", out |-> out]
                    ELSE runner_exec(Tail(code), fs \cup {r.name}, out)
           [] st.op = "raise" ->
                [exc |-> RaisedBy(st), fs |-> fs, how |-> "raised", out |-> out]
           [] st.op = "exit" -> [fs |-> fs, how |-> "exit", out |-> out]
           [] st.op = "loop" -> [fs |-> fs, how |-> "loops", out |-> out]
           [] st.op = "open" -> runner_exec(Tail(code), fs \cup {st.name}, out)
           [] st.op = "print" ->
                runner_exec(Tail(code), fs, Append(out, Stdout("text", <<>>)))

\* if len(error_msg) > 200: error_msg = error_msg[:200] + "..."
RunnerMsgMax == 200

\* f'... "message": "{error_type}: {error_msg}"}' with error_msg truncated
runner_diagnostic(e) ==
    LET error_type == ExcName(e)
        error_msg  == IF Len(ExcStr(e)) > RunnerMsgMax
                      THEN SubSeq(ExcStr(e), 1, RunnerMsgMax) \o <<".", ".", ".">>
                      ELSE ExcStr(e)
    IN  Str(error_type \o <<":", " ">> \o error_msg)

\* files = [str(f) for f in temp_dir.iterdir() if f.is_file()]
runner_files(j, fs) == SetToSeq({ PathIn(j, name) : name \in fs })

\* main() from an empty temp_dir: what is written to stdout, in order, the
\* files left, the exception leaving main, whether main ends, where an
\* exception was raised, and whether the directory was enumerated.
runner_main(code, j) ==
    LET x == runner_exec(code, {}, <<>>) IN
    CASE x.how = "completed" ->
           [fs |-> x.fs,
            sent |-> Append(x.out, Stdout("json", <<"success", List(runner_files(j, x.fs))>>)),
            escaped |-> <<>>, setup |-> SetupDone("runner", TRUE), ends |-> TRUE,
            raisedIn |-> "none",
            collected |-> TRUE]
      [] x.how = "raised" ->
           [fs |-> x.fs,
            sent |-> Append(x.out, Stdout("json", <<"error", runner_diagnostic(x.exc)>>)),
            escaped |-> <<>>, setup |-> SetupDone("runner", TRUE), ends |-> TRUE,
            raisedIn |-> "script",
            collected |-> FALSE]
      [] x.how = "exit" ->
           [fs |-> x.fs, sent |-> x.out, escaped |-> <<Raised("SystemExit", <<>>)>>,
            setup |-> SetupDone("runner", TRUE), ends |-> TRUE, raisedIn |-> "none",
            collected |-> FALSE]
      [] x.how = "loops" ->
           [fs |-> x.fs, sent |-> x.out, escaped |-> <<>>, setup |-> SetupDone("runner", TRUE),
            ends |-> FALSE, raisedIn |-> "none",
            collected |-> FALSE]

-----------------------------------------------------------------------------
(* Values passed between worker, safe_exec and handle_code *)

\* The text safe_exec returns when the deadline passed (line 234) and the
\* prefix of the text it returns from its except branch (line 237).
TimeoutMsg == <<"time limit exceeded (30 s)">>
LaunchMsg  == <<"launch error: ">>

TimeoutResult == <<"error", List(<<Str(TimeoutMsg)>>)>>
LaunchResult(e) == <<"error", List(<<Str(LaunchMsg \o <<e>>)>>)>>

\* bot.py constants: poll(30), proc.join(2), proc.join(timeout=1), and the
\* delay handle_code passes to delete_files_after_delay.
DEADLINE     == 30
GRACE        == 2
JOIN_TIMEOUT == 1
RETENTION    == 900

-----------------------------------------------------------------------------
(* Bounds and inputs *)

NumJobs == 2
Jobs == 1..NumJobs

\* Telegram users; ADMIN_IDS is read from the environment at start.
NumUsers == 2
Users == 1..NumUsers
ADMIN_IDS == {1}

S_pdf    == <<StmtSave("canvas", f_out_pdf)>>
S_socket == <<StmtImport(n_socket)>>
S_raise  == <<StmtRaise>>
S_loop   == <<StmtLoop>>
Scripts  == {S_pdf, S_socket, S_loop}

-----------------------------------------------------------------------------
(* Initial state *)

JobInit ==
    /\ script     = [j \in Jobs |-> <<>>]
    /\ opc        = [j \in Jobs |-> "idle"]
    /\ loop       = 0
    /\ alive      = [j \in Jobs |-> FALSE]
    /\ wout       = [j \in Jobs |-> <<>>]
    /\ pipe       = [j \in Jobs |-> <<>>]
    /\ pending    = [j \in Jobs |-> <<>>]
    /\ result     = [j \in Jobs |-> <<>>]
    /\ waited     = [j \in Jobs |-> 0]
    /\ signals    = [j \in Jobs |-> <<>>]
    /\ finalAlive = [j \in Jobs |-> "unset"]
    /\ answers    = [j \in Jobs |-> <<>>]
    /\ tasks      = {}
    /\ ranTasks   = {}
    /\ seen       = [j \in Jobs |-> <<>>]
    /\ buttons    = {}
    /\ lastAct    = <<>>
    \* init_db: the table exists and every admin has a row with 'approved'
    /\ status     = [u \in Users |-> IF u \in ADMIN_IDS THEN "approved" ELSE "none"]

GateIdle ==
    /\ gImpl = "bot"
    /\ gName = <<>>
    /\ gFromlist = {}
    /\ gResult = <<>>

CallIdle ==
    /\ cImpl = "bot"
    /\ cArg = <<>>
    /\ cRet = <<>>

DiskEmpty == disk = [j \in Jobs |-> {}]

Init == JobInit /\ GateIdle /\ CallIdle /\ DiskEmpty

-----------------------------------------------------------------------------
(* handle_code and safe_exec.  safe_exec has no await: from its first line   *)
(* to its return the coroutine of job j keeps the event-loop thread (loop).  *)

InSafeExec == {"pipe", "start", "poll", "terminate", "join2", "is_alive", "kill", "fjoin"}

\* get_user_status(user_id) on the table st
get_user_status(user_id, st) ==
    IF user_id \in ADMIN_IDS THEN "approved"
    ELSE IF st[user_id] = "none" THEN "pending" ELSE st[user_id]

\* Everyone but the banned let through.
Admitted_NotBanned(st) == st # "banned"

\* if status != "approved": ... return   (line 622)
Admitted(st) == st = "approved"

\* A message with non-empty code reaches handle_code (lines 616-649): the
\* sender's status is read; a sender who is not approved is told so and the
\* handler returns; otherwise the coroutine is suspended at an await before
\* safe_exec.
H_Receive(j) ==
    /\ opc[j] = "idle"
    /\ \E u \in Users :
         LET st == get_user_status(u, status) IN
         /\ seen' = [seen EXCEPT ![j] = <<[status |-> st, user |-> u, row |-> status[u]]>>]
         /\ IF Admitted(st)
            THEN /\ \E code \in Scripts : script' = [script EXCEPT ![j] = code]
                 /\ opc' = [opc EXCEPT ![j] = "submitted"]
                 /\ answers' = answers
            ELSE /\ answers' = [answers EXCEPT ![j] = <<[status |-> st, kind |-> "refused"]>>]
                 /\ opc' = [opc EXCEPT ![j] = "refused"]
                 /\ script' = script
    /\ UNCHANGED <<loop, alive, wout, pipe, pending, result, waited,
                   signals, finalAlive, tasks, gateVars, callVars, fsVars,
                   status, buttons, lastAct>>

\* The event loop resumes the coroutine, which calls safe_exec (line 652).
H_Call(j) ==
    /\ opc[j] = "submitted"
    /\ loop = 0
    /\ loop' = j
    /\ opc' = [opc EXCEPT ![j] = "pipe"]
    /\ UNCHANGED <<script, alive, wout, pipe, pending, result, waited,
                   signals, finalAlive, answers, tasks, gateVars, callVars, fsVars, userVars>>

\* An exception leaves safe_exec and handle_code, which catches nothing.
Propagate(j) ==
    /\ opc' = [opc EXCEPT ![j] = "raised"]
    /\ loop' = 0

\* parent_conn, child_conn = multiprocessing.Pipe()   (line 215, outside try)
O_Pipe(j) ==
    /\ opc[j] = "pipe"
    /\ \E ok \in BOOLEAN :
         IF ok THEN opc' = [opc EXCEPT ![j] = "start"] /\ loop' = loop
         ELSE Propagate(j)
    /\ UNCHANGED <<script, alive, wout, pipe, pending, result, waited,
                   signals, finalAlive, answers, tasks, gateVars, callVars, fsVars, userVars>>

\* proc.start()   (line 223, outside try)
O_Start(j) ==
    /\ opc[j] = "start"
    /\ \E ok \in BOOLEAN :
         IF ok
         THEN /\ alive' = [alive EXCEPT ![j] = TRUE]
              /\ opc' = [opc EXCEPT ![j] = "poll"]
              /\ loop' = loop
         ELSE /\ Propagate(j)
              /\ alive' = alive
    /\ waited' = [waited EXCEPT ![j] = 0]
    /\ UNCHANGED <<script, wout, pipe, pending, result,
                   signals, finalAlive, answers, tasks, gateVars, callVars, fsVars, userVars>>

\* poll without its timeout: returns only once the pipe holds data.
PollReturns_NoDeadline(j) == pipe[j] # <<>>

\* parent_conn.poll(30) returns: True once the pipe holds data, False when
\* 30 seconds have passed.
PollReturns(j) == pipe[j] # <<>> \/ waited[j] >= DEADLINE

\* result = parent_conn.recv(): the object the bytes decode to, or the
\* exception recv raises on bytes that do not decode.
Recv(m) ==
    IF m.bytes = "pickle" THEN [value |-> m.value, ok |-> TRUE]
    ELSE [exc |-> "UnpicklingError", ok |-> FALSE]

\* A timeout reported under a tag of its own.
TimeoutReturn_Tagged == <<"timeout", List(<<Str(TimeoutMsg)>>)>>

\* The value returned at line 234.
TimeoutReturn == TimeoutResult

\* Lines 227-230 and 235-237: poll returns; on True recv and `return result`
\* (or the except branch when recv raises), on False proc.terminate() is next.
O_Poll(j) ==
    /\ opc[j] = "poll"
    /\ PollReturns(j)
    /\ IF pipe[j] # <<>>
       THEN LET r == Recv(Head(pipe[j])) IN
            /\ pipe' = [pipe EXCEPT ![j] = Tail(pipe[j])]
            /\ pending' = [pending EXCEPT ![j] =
                              IF r.ok THEN <<r.value>> ELSE <<LaunchResult(r.exc)>>]
            /\ opc' = [opc EXCEPT ![j] = "fjoin"]
            /\ waited' = [waited EXCEPT ![j] = 0]
       ELSE /\ opc' = [opc EXCEPT ![j] = "terminate"]
            /\ UNCHANGED <<pipe, pending, waited>>
    /\ UNCHANGED <<script, loop, alive, wout, result,
                   signals, finalAlive, answers, tasks, gateVars, callVars, fsVars, userVars>>


\* proc.terminate()   (line 230)
O_Terminate(j) ==
    /\ opc[j] = "terminate"
    /\ signals' = [signals EXCEPT ![j] =
                      Append(@, [sig |-> "TERM", at |-> waited[j], wasAlive |-> alive[j]])]
    /\ opc' = [opc EXCEPT ![j] = "join2"]
    /\ waited' = [waited EXCEPT ![j] = 0]
    /\ UNCHANGED <<script, loop, alive, wout, pipe, pending, result,
                   finalAlive, answers, tasks, gateVars, callVars, fsVars, userVars>>

\* A join with a timeout returns when the process has ended or the timeout
\* has passed.
JoinReturns(j, timeout) == ~alive[j] \/ waited[j] >= timeout

\* proc.join(2)   (line 231)
O_Join2(j) ==
    /\ opc[j] = "join2"
    /\ JoinReturns(j, GRACE)
    /\ opc' = [opc EXCEPT ![j] = "is_alive"]
    /\ UNCHANGED <<script, loop, alive, wout, pipe, pending, result, waited,
                   signals, finalAlive, answers, tasks, gateVars, callVars, fsVars, userVars>>

\* The is_alive check left out: the process is never killed.
KillNeeded_Never(j) == FALSE

\* if proc.is_alive(): proc.kill() is next; otherwise `return "error", [...]`
\* (lines 232 and 234), whose finally clause is next.
KillNeeded(j) == alive[j]

O_IsAlive(j) ==
    /\ opc[j] = "is_alive"
    /\ IF KillNeeded(j)
       THEN /\ opc' = [opc EXCEPT ![j] = "kill"]
            /\ UNCHANGED <<pending, waited>>
       ELSE /\ pending' = [pending EXCEPT ![j] = <<TimeoutReturn>>]
            /\ opc' = [opc EXCEPT ![j] = "fjoin"]
            /\ waited' = [waited EXCEPT ![j] = 0]
    /\ UNCHANGED <<script, loop, alive, wout, pipe, result,
                   signals, finalAlive, answers, tasks, gateVars, callVars, fsVars, userVars>>

\* proc.kill() and `return "error", [...]`   (lines 233-234): SIGKILL ends
\* the process.
O_Kill(j) ==
    /\ opc[j] = "kill"
    /\ signals' = [signals EXCEPT ![j] =
                      Append(@, [sig |-> "KILL", at |-> waited[j], wasAlive |-> alive[j]])]
    /\ alive' = [alive EXCEPT ![j] = FALSE]
    /\ pending' = [pending EXCEPT ![j] = <<TimeoutReturn>>]
    /\ opc' = [opc EXCEPT ![j] = "fjoin"]
    /\ waited' = [waited EXCEPT ![j] = 0]
    /\ UNCHANGED <<script, loop, wout, pipe, result,
                   finalAlive, answers, tasks, gateVars, callVars, fsVars, userVars>>

\* finally: proc.join(timeout=1), then the pending return value reaches
\* handle_code   (lines 238-239)
O_FinallyJoin(j) ==
    /\ opc[j] = "fjoin"
    /\ JoinReturns(j, JOIN_TIMEOUT)
    /\ result' = [result EXCEPT ![j] = @ \o pending[j]]
    /\ pending' = [pending EXCEPT ![j] = <<>>]
    /\ finalAlive' = [finalAlive EXCEPT ![j] = IF alive[j] THEN "running" ELSE "stopped"]
    /\ opc' = [opc EXCEPT ![j] = "returned"]
    /\ waited' = [waited EXCEPT ![j] = 0]
    /\ UNCHANGED <<script, loop, alive, wout, pipe,
                   signals, answers, tasks, gateVars, callVars, fsVars, userVars>>

-----------------------------------------------------------------------------
(* handle_code after safe_exec returned   (lines 654-671) *)

ErrMax  == 3000
ErrKeep == 2997

\* `if not files` taken as `if files is None`: an empty list passes.
Truthy_NotNone(v) == TRUE

Truthy(v) == IF IsList(v) THEN v.list # <<>> ELSE v.str # <<>>

\* Every result taken as a success.
IsSuccess_Any(result_type) == TRUE

\* if result_type == "success"
IsSuccess(result_type) == result_type = "success"

\* for file_path in files: the items of a list, the characters of a str
Items(v) == IF IsList(v) THEN v.list ELSE [i \in 1..Len(v.str) |-> Str(<<v.str[i]>>)]

\* result_data[0]: the first item of a list, the first character of a str
Index0(v) == IF IsList(v) THEN v.list[1] ELSE Str(<<v.str[1]>>)

\* error_msg[:2997] + "..." when len(error_msg) > 3000
Truncate(msg) ==
    IF Len(msg.str) > ErrMax THEN Str(SubSeq(msg.str, 1, ErrKeep) \o <<".", ".", ".">>)
    ELSE msg

\* What handle_code answers for the pair safe_exec returned, and the deferred
\* deletion it creates (delete_files_after_delay(files, 900)), if any.
handle_result(j, r) ==
    LET result_type == r[1]
        result_data == r[2]
    IN  IF IsSuccess(result_type)
        THEN IF ~Truthy(result_data)
             THEN [answers |-> <<[kind |-> "no_files"]>>, tasks |-> {}]
             ELSE [answers |-> [i \in 1..Len(Items(result_data)) |->
                                  [kind |-> "document", path |-> Items(result_data)[i]]],
                   tasks |-> {[job |-> j, files |-> Items(result_data), delay |-> RETENTION]}]
        ELSE LET error_msg == IF Truthy(result_data) THEN Index0(result_data)
                              ELSE Str(<<"unknown error">>)
             IN  [answers |-> <<[kind |-> "error", text |-> Truncate(error_msg)]>>,
                  tasks |-> {}]

H_Relay(j) ==
    /\ opc[j] = "returned"
    /\ LET h == handle_result(j, result[j][Len(result[j])]) IN
         /\ answers' = [answers EXCEPT ![j] = @ \o h.answers]
         /\ tasks' = tasks \cup h.tasks
    /\ opc' = [opc EXCEPT ![j] = "done"]
    /\ loop' = 0
    /\ UNCHANGED <<script, alive, wout, pipe, pending, result, waited,
                   signals, finalAlive, gateVars, callVars, fsVars, userVars>>

-----------------------------------------------------------------------------
(* delete_files_after_delay   (lines 246-253) *)

\* Path(path).unlink(missing_ok=True) on directory contents d: the file is
\* removed; a missing file is no error; a path that names a directory (here
\* the job directory itself, name <<>>) raises IsADirectoryError.
unlink(d, path) ==
    IF "dir" \in DOMAIN path /\ path.dir \in DOMAIN d
    THEN IF path.name = <<>> THEN [disk |-> d, exc |-> <<"IsADirectoryError">>]
         ELSE [disk |-> [d EXCEPT ![path.dir] = @ \ {path.name}], exc |-> <<>>]
    ELSE [disk |-> d, exc |-> <<>>]

\* The exception handed on instead of being dropped.
except_reraise(r) == r

\* except Exception: pass
except_pass(r) == [r EXCEPT !.exc = <<>>]

\* The loop of delete_files_after_delay after the sleep: the directory
\* contents it leaves and the exception that left it, if any.
RECURSIVE delete_files_after_delay(_, _)
delete_files_after_delay(file_paths, d) ==
    IF file_paths = <<>> THEN [disk |-> d, exc |-> <<>>]
    ELSE LET r == except_pass(unlink(d, Head(file_paths))) IN
         IF r.exc # <<>> THEN r
         ELSE delete_files_after_delay(Tail(file_paths), r.disk)

\* The task created at line 665 wakes from asyncio.sleep(900) and runs; it
\* needs the event-loop thread.
D_Run(t) ==
    /\ t \in tasks \ ranTasks
    /\ loop = 0
    /\ disk' = delete_files_after_delay(t.files, disk).disk
    /\ ranTasks' = ranTasks \cup {t}
    /\ UNCHANGED <<jobVars, gateVars, callVars, userVars>>

-----------------------------------------------------------------------------
(* The worker process *)

\* The target function runs to its end (or into a loop it never leaves):
\* its messages are written to the pipe.
W_Apply(j, out) ==
    /\ alive[j]
    /\ wout[j] = <<>>
    /\ wout' = [wout EXCEPT ![j] = <<out>>]
    /\ pipe' = [pipe EXCEPT ![j] = @ \o out.sent]
    /\ disk' = [disk EXCEPT ![j] = out.fs]
    /\ UNCHANGED <<script, opc, loop, alive, pending, result, waited,
                   signals, finalAlive, answers, tasks, gateVars, callVars,
                   ranTasks, userVars>>

\* The process of job j runs _run_code_in_sandbox on the submitted code.
W_RunCode(j) == W_Apply(j, run_code_in_sandbox(script[j], j))

\* The process ends: its target function has returned or was left by an
\* exception, or SIGTERM was sent and acted upon.
W_Exit(j) ==
    /\ alive[j]
    /\ \/ wout[j] # <<>> /\ wout[j][1].ends
       \/ signals[j] # <<>>
    /\ alive' = [alive EXCEPT ![j] = FALSE]
    /\ UNCHANGED <<script, opc, loop, wout, pipe, pending, result, waited,
                   signals, finalAlive, answers, tasks, gateVars, callVars, fsVars, userVars>>

-----------------------------------------------------------------------------
(* The users table and the admin's actions on it.  Every handler here first  *)
(* returns when the caller is not in ADMIN_IDS; the actions are those of an  *)
(* admin.                                                                    *)

\* ensure_user_registered(user)  (cmd_start, cmd_profile): INSERT OR IGNORE
U_Register(u) ==
    /\ status[u] = "none"
    /\ status' = [status EXCEPT ![u] = IF u \in ADMIN_IDS THEN "approved" ELSE "pending"]
    /\ UNCHANGED <<seen, buttons, lastAct, jobVars, gateVars, callVars, fsVars>>

\* The action buttons cb_user_menu puts under the menu of user u (lines
\* 481-488); no menu when u has no row.
MenuButtons(u, st) ==
    CASE st[u] = "pending"  -> {[user |-> u, act |-> "approve"], [user |-> u, act |-> "ban"]}
      [] st[u] = "approved" -> {[user |-> u, act |-> "reset"], [user |-> u, act |-> "ban"]}
      [] st[u] = "banned"   -> {[user |-> u, act |-> "unban"]}
      [] OTHER -> {}

\* cb_user_menu: the admin opens the menu of a listed user (the list of
\* /players leaves the admins out).
A_Menu(u) ==
    /\ u \notin ADMIN_IDS
    /\ status[u] # "none"
    /\ MenuButtons(u, status) \ buttons # {}
    /\ buttons' = buttons \cup MenuButtons(u, status)
    /\ UNCHANGED <<status, seen, lastAct, jobVars, gateVars, callVars, fsVars>>

\* The UPDATE statements of cb_action, cmd_approve and cmd_ban on user u's
\* row; no row, no change.
Update(st, act, u) ==
    CASE st[u] = "none" -> st
      [] act = "approve" -> IF st[u] = "pending" THEN [st EXCEPT ![u] = "approved"] ELSE st
      [] act = "ban"     -> [st EXCEPT ![u] = "banned"]
      [] act = "unban"   -> [st EXCEPT ![u] = "pending"]
      [] act = "reset"   -> [st EXCEPT ![u] = "pending"]

\* cb_action: the admin presses an action button of a menu rendered earlier;
\* the row is updated and the menu is rendered again (line 536).
A_Button(b) ==
    /\ b \in buttons
    /\ status' = Update(status, b.act, b.user)
    /\ buttons' = buttons \cup MenuButtons(b.user, status')
    /\ lastAct' = <<b>>
    /\ UNCHANGED <<seen, jobVars, gateVars, callVars, fsVars>>

\* cmd_approve and cmd_ban: /approve <user_id>, /ban <user_id>
A_Command(act, u) ==
    /\ act \in {"approve", "ban"}
    /\ status' = Update(status, act, u)
    /\ lastAct' = <<[user |-> u, act |-> act]>>
    /\ lastAct' # lastAct \/ status' # status
    /\ UNCHANGED <<seen, buttons, jobVars, gateVars, callVars, fsVars>>

Admin ==
    \/ \E u \in Users : U_Register(u)
    \/ \E u \in Users : A_Menu(u)
    \/ \E b \in buttons : A_Button(b)
    \/ \E u \in Users : A_Command("approve", u) \/ A_Command("ban", u)

-----------------------------------------------------------------------------
(* Time, in seconds.  poll and join are the only places where safe_exec      *)
(* waits; every other step of it takes no time.                              *)

Waiting(j) == opc[j] \in {"poll", "join2", "fjoin"}

WaitOver(j) ==
    CASE opc[j] = "poll"  -> PollReturns(j)
      [] opc[j] = "join2" -> JoinReturns(j, GRACE)
      [] opc[j] = "fjoin" -> JoinReturns(j, JOIN_TIMEOUT)
      [] OTHER -> FALSE

Urgent(j) == opc[j] \in InSafeExec /\ (~Waiting(j) \/ WaitOver(j))

\* The longest a wait of safe_exec lasts.
WaitLimit(j) ==
    CASE opc[j] = "poll"  -> DEADLINE
      [] opc[j] = "join2" -> GRACE
      [] OTHER -> JOIN_TIMEOUT

Tick ==
    /\ \E j \in Jobs : Waiting(j)
    /\ \A j \in Jobs : ~Urgent(j)
    /\ \A j \in Jobs : Waiting(j) => waited[j] < WaitLimit(j)
    /\ waited' = [j \in Jobs |-> IF Waiting(j) THEN waited[j] + 1 ELSE waited[j]]
    /\ UNCHANGED <<script, opc, loop, alive, wout, pipe, pending, result,
                   signals, finalAlive, answers, tasks, gateVars, callVars, fsVars, userVars>>

-----------------------------------------------------------------------------
(* The program: handle_code, safe_exec and the worker of bot.py *)

Orchestrator(j) ==
    \/ H_Call(j) \/ O_Pipe(j) \/ O_Start(j) \/ O_Poll(j) \/ O_Terminate(j)
    \/ O_Join2(j) \/ O_IsAlive(j) \/ O_Kill(j) \/ O_FinallyJoin(j) \/ H_Relay(j)

Next ==
    \/ \E j \in Jobs : H_Receive(j)
    \/ \E j \in Jobs : Orchestrator(j)
    \/ \E j \in Jobs : W_RunCode(j)
    \/ \E j \in Jobs : W_Exit(j)
    \/ Tick

Spec == Init /\ [][Next]_vars

-----------------------------------------------------------------------------
(* safe_exec against any target process.  multiprocessing.Process runs the   *)
(* target it is given; here the target may do on the pipe whatever a process *)
(* can: send a success or an error message, send bytes that do not decode,   *)
(* send nothing and end, or never end.                                       *)

TargetOutcome(sent, ends, raisedIn) ==
    [fs |-> {}, sent |-> sent, escaped |-> <<>>,
     setup |-> [ran |-> FALSE, gate |-> FALSE, wrapped |-> {}],
     ends |-> ends, raisedIn |-> raisedIn, collected |-> FALSE]

TargetOutcomes(j) ==
    { TargetOutcome(<<Send(<<"success", List(<<>>)>>)>>, TRUE, "none") }
    \cup { [TargetOutcome(<<Send(<<"success", List(<<PathIn(j, f_out_pdf)>>)>>)>>,
                          TRUE, "none") EXCEPT !.fs = files] :
             files \in {{f_out_pdf}, {f_out_pdf, f_x_sh}} }
    \cup { [TargetOutcome(<<Send(<<"error", bot_diagnostic(Raised("Exception", <<>>))>>)>>,
                          TRUE, "script") EXCEPT !.fs = files] :
             files \in {{}, {f_out_pdf}} }
    \cup { TargetOutcome(<<[bytes |-> "garbage"]>>, TRUE, "none") }
    \cup { TargetOutcome(<<>>, e, "none") : e \in BOOLEAN }

W_AnyTarget(j) == \E out \in TargetOutcomes(j) : W_Apply(j, out)

\* The jobs submitted in this specification.
NumExecJobs == 1
ExecJobs == { j \in Jobs : j <= NumExecJobs }

ExecNext ==
    \/ \E j \in ExecJobs : H_Receive(j)
    \/ \E j \in ExecJobs : Orchestrator(j)
    \/ \E j \in ExecJobs : W_AnyTarget(j)
    \/ \E j \in ExecJobs : W_Exit(j)
    \/ \E t \in tasks : D_Run(t)
    \/ Tick

ExecSpec == Init /\ [][ExecNext]_vars

\* Time passes, and the event loop runs a coroutine that can run.
ExecLive ==
    /\ ExecSpec
    /\ WF_vars(Tick)
    /\ \A j \in ExecJobs : WF_vars(Orchestrator(j))

-----------------------------------------------------------------------------
(* The bot with its users: submissions interleaved with registrations and   *)
(* the admin's actions                                                       *)

AccessNext ==
    \/ \E j \in ExecJobs : H_Receive(j)
    \/ \E j \in ExecJobs : Orchestrator(j)
    \/ \E j \in ExecJobs : W_RunCode(j)
    \/ \E j \in ExecJobs : W_Exit(j)
    \/ Tick
    \/ Admin

AccessSpec == Init /\ [][AccessNext]_vars

-----------------------------------------------------------------------------
(* The import gates on their own: one import request, one call *)

GateNames ==
    { n_os, n_os_path, n_sys, n_types, n_io, n_json, n_json_decoder, n_socket,
      n_socket_foo, n_subprocess, n_urllib, n_pathlib, n_builtins, n_nosuchmod }

GateInit ==
    /\ JobInit
    /\ CallIdle
    /\ DiskEmpty
    /\ gImpl \in {"bot", "runner"}
    /\ gName \in GateNames
    /\ gFromlist \in {{}, {"attr"}}
    /\ gResult = <<>>

\* The script executes `import gName` (empty fromlist) or
\* `from gName import attr` under the installed gate.
G_Import ==
    /\ gResult = <<>>
    /\ gResult' = <<Gate(gImpl, gName, gFromlist)>>
    /\ UNCHANGED <<gImpl, gName, gFromlist, jobVars, callVars, fsVars, userVars>>

GateNext == G_Import

GateSpec == GateInit /\ [][GateNext]_vars

-----------------------------------------------------------------------------
(* The wrapped writers on their own: one call of one writer *)

WriterInit ==
    /\ JobInit
    /\ GateIdle
    /\ DiskEmpty
    /\ cImpl \in {"bot", "runner"}
    /\ cArg \in [writer : Writers, fn : FileNames]
    /\ cRet = <<>>

\* The script calls Document.save(fn), Presentation.save(fn) or Canvas(fn).
Wr_Call ==
    /\ cRet = <<>>
    /\ cRet' = <<WriterCall(cImpl, JobDirStr, cArg.writer, cArg.fn)>>
    /\ UNCHANGED <<cImpl, cArg, gateVars, jobVars, fsVars, userVars>>

\* The writer wrapped a second time: the outer wrapper hands the path it
\* built to the inner one, which treats it as its file name.
Wr_Again ==
    /\ Len(cRet) = 1
    /\ cRet[1].kind = "write"
    /\ cRet' = Append(cRet, WriterCall(cImpl, JobDirStr, cArg.writer, cRet[1].path))
    /\ UNCHANGED <<cImpl, cArg, gateVars, jobVars, fsVars, userVars>>

WriterNext == Wr_Call \/ Wr_Again

WriterSpec == WriterInit /\ [][WriterNext]_vars

-----------------------------------------------------------------------------
(* One run of a worker on one script: _run_code_in_sandbox of bot.py or     *)
(* main of sandbox_runner.py                                                 *)

\* Lengths of the class name and of the message of a script's exception.
ShortLen == 3
LongLen  == 300
Chars(n, c) == [i \in 1..n |-> c]

WorkerStmts ==
    { StmtOpen(f_x_sh), StmtOpen(f_out_pdf), StmtPrint, StmtExit, StmtLoop,
      StmtImport(n_socket), StmtImport(n_json), StmtSave("canvas", f_out_pdf) }
    \cup { StmtRaiseOf(Chars(n, "E"), Chars(m, "x")) :
             n \in {ShortLen, LongLen}, m \in {ShortLen, LongLen} }

WorkerScripts ==
    { <<a>> : a \in WorkerStmts } \cup { <<a, b>> : a, b \in WorkerStmts }

WorkerRun(impl, code, j) ==
    IF impl = "bot" THEN run_code_in_sandbox(code, j) ELSE runner_main(code, j)

WorkerInit ==
    /\ JobInit
    /\ GateIdle
    /\ DiskEmpty
    /\ cImpl \in {"bot", "runner"}
    /\ cArg \in [code : WorkerScripts]
    /\ cRet = <<>>

\* The worker process runs from its start to its end (or into the script's
\* endless loop).
Wk_Run ==
    /\ cRet = <<>>
    /\ cRet' = <<WorkerRun(cImpl, cArg.code, 1)>>
    /\ UNCHANGED <<cImpl, cArg, gateVars, jobVars, fsVars, userVars>>

WorkerNext == Wk_Run

WorkerSpec == WorkerInit /\ [][WorkerNext]_vars

-----------------------------------------------------------------------------
(* delete_files_after_delay on its own: some files in the job directories,  *)
(* one list of paths, the deletion run once and once more                   *)

PathLists ==
    { <<>>,
      <<PathIn(1, f_out_pdf)>>,
      <<PathIn(1, f_out_pdf), PathIn(1, f_a_docx)>>,
      <<PathIn(1, f_out_pdf), PathIn(1, f_out_pdf)>>,
      <<PathIn(1, <<>>), PathIn(1, f_out_pdf)>>,
      <<PathIn(2, f_x_sh)>> }

DeleteInit ==
    /\ JobInit
    /\ GateIdle
    /\ cImpl = "bot"
    /\ disk \in [Jobs -> SUBSET {f_out_pdf, f_x_sh}]
    /\ cArg \in [paths : PathLists, disk0 : {disk}]
    /\ cRet = <<>>

Del_Run ==
    /\ Len(cRet) < 2
    /\ LET r == delete_files_after_delay(cArg.paths, disk) IN
         /\ disk' = r.disk
         /\ cRet' = Append(cRet, r)
    /\ UNCHANGED <<cImpl, cArg, ranTasks, gateVars, jobVars, userVars>>

DeleteNext == Del_Run

DeleteSpec == DeleteInit /\ [][DeleteNext]_vars

-----------------------------------------------------------------------------
(* Properties *)

Returned(j) == opc[j] \in {"returned", "done"}

\* The deadline of job j passed with no result: poll returned False and
\* safe_exec went on to proc.terminate().
DeadlinePassed(j) == opc[j] = "terminate" \/ signals[j] # <<>>

Range(seq) == { seq[i] : i \in DOMAIN seq }

\* C1: every job whose worker safe_exec has launched - whatever the worker
\* then does: send a result, end without sending, never end until killed -
\* comes back from safe_exec (it does not wait forever), and safe_exec hands
\* handle_code exactly one outcome for it, never a second one.
C1_ExactlyOneOutcome ==
    /\ [](\A j \in Jobs : /\ Len(result[j]) <= 1
                          /\ Returned(j) => Len(result[j]) = 1)
    /\ \A j \in Jobs : (opc[j] = "poll") ~> (opc[j] = "returned")

\* C1 witness: a worker that ended without sending anything, and its job
\* came back with one outcome.
C1_Witness ==
    \E j \in Jobs : /\ opc[j] = "returned"
                    /\ wout[j] # <<>> /\ wout[j][1].sent = <<>> /\ ~alive[j]
                    /\ Len(result[j]) = 1

\* The script only saves files, each under a name its writer permits.
SavesPermitted(code) ==
    /\ code # <<>>
    /\ \A i \in DOMAIN code :
          code[i].op = "save" /\ ~IsRaise(PatchedSave(code[i].writer, code[i].fn))

\* C2: for a script that completes without raising and saves a file under a
\* permitted name, the worker reaches the collection step and sends
\* ("success", files) with <jobdir>/<basename> in files, and when the worker
\* did so before the deadline passed, safe_exec returns that outcome.
C2_SavedFileIsReturned ==
    \A j \in Jobs :
        SavesPermitted(script[j]) =>
            /\ wout[j] # <<>> =>
                  /\ wout[j][1].collected
                  /\ Len(wout[j][1].sent) = 1
                  /\ wout[j][1].sent[1].value[1] = "success"
                  /\ \A i \in DOMAIN script[j] :
                        PathIn(j, basename(script[j][i].fn))
                            \in Range(wout[j][1].sent[1].value[2].list)
            /\ (Returned(j) /\ ~DeadlinePassed(j)) =>
                  /\ wout[j] # <<>>
                  /\ result[j][1] = wout[j][1].sent[1].value

\* C3: whenever the worker's setup or the script raised an exception, the
\* worker wrote an ("error", diagnostic) message to the pipe.
C3_HandlerEmitsError ==
    \A j \in Jobs :
        (wout[j] # <<>> /\ wout[j][1].raisedIn # "none") =>
            /\ wout[j][1].sent # <<>>
            /\ wout[j][1].sent[1] = Send(<<"error", wout[j][1].sent[1].value[2]>>)

HeldFor(j) ==
    IF opc[j] \in {"poll", "terminate"} THEN waited[j]
    ELSE signals[j][1].at + waited[j]

\* C5: once the deadline passed, safe_exec sends SIGTERM first (at the
\* deadline), then waits at most GRACE seconds, sends SIGKILL only after the
\* whole grace period passed with the process running, returns with the
\* process not running, and no process is running later than DEADLINE + GRACE
\* seconds after its start while safe_exec deals with it.
C5_EscalatingTermination ==
    \A j \in Jobs :
        /\ Len(signals[j]) <= 2
        /\ signals[j] # <<>> =>
              signals[j][1].sig = "TERM" /\ signals[j][1].at = DEADLINE
        /\ Len(signals[j]) = 2 =>
              signals[j][2].sig = "KILL" /\ signals[j][2].at = GRACE
        /\ opc[j] \in {"join2", "is_alive", "kill"} => waited[j] <= GRACE
        /\ (DeadlinePassed(j) /\ Returned(j)) => finalAlive[j] = "stopped"
        /\ (alive[j] /\ opc[j] \in {"poll", "terminate", "join2", "is_alive", "kill"}) =>
              HeldFor(j) <= DEADLINE + GRACE

\* C5 witness: a worker that outlived SIGTERM and the grace period was
\* killed, and safe_exec returned.
C5_Witness ==
    \E j \in Jobs : opc[j] = "returned" /\ Len(signals[j]) = 2 /\ signals[j][2].wasAlive

\* C6: while job j waits in poll for its worker, the coroutine of another
\* submitted job k can be run by the event loop: k's safe_exec can start.
C6_WaitDoesNotBlock ==
    \A j, k \in Jobs :
        (j # k /\ opc[j] = "poll" /\ opc[k] = "submitted") => ENABLED H_Call(k)

\* C7: for every job handle_code is done with, whatever its outcome, a
\* deletion of the job's files after RETENTION seconds has been created.
C7_DeletionAlwaysScheduled ==
    \A j \in Jobs :
        opc[j] = "done" => \E t \in tasks : t.job = j /\ t.delay = RETENTION

\* C8: no launch or transport fault leaves safe_exec as an exception: every
\* job that entered safe_exec and left it has an outcome.
C8_NoFaultPropagates ==
    \A j \in Jobs : opc[j] # "raised"

\* C9: an import request whose top-level component is not in the allow-list
\* (and is not os) raises, under either gate: the script gets no object.
C9_DeniedUnlessAllowed ==
    (/\ gResult # <<>>
     /\ SplitFirst(gName) \notin ALLOWED_MODULES
     /\ SplitFirst(gName) # n_os) => IsRaise(gResult[1])

\* C10: an import request whose top-level component is os never returns the
\* real os module, under either gate.
C10_NoRealOs ==
    (gResult # <<>> /\ SplitFirst(gName) = n_os) => gResult[1] # ModuleObj(n_os)

\* The final path segment of a file name.
FinalSegment(fn) == Segments(fn)[Len(Segments(fn))]

\* C11: whenever a wrapped writer (of bot.py or of sandbox_runner.py) hands a
\* path to the real writer, for any file name it was called with - plain,
\* with directories, with ../, absolute - that path is the job directory,
\* one '/', and the final segment of the given name, which is a proper file
\* name (not empty, not '.' or '..', no '/'): a location directly inside the
\* job directory, built by the writer and not the caller's string.
C11_PathConfined ==
    (cRet # <<>> /\ cRet[1].kind = "write") =>
        LET seg == FinalSegment(cArg.fn) IN
        /\ seg \notin {<<>>, <<".">>, <<".", ".">>}
        /\ \A i \in DOMAIN seg : seg[i] # "/"
        /\ cRet[1].path = JobDirStr \o <<"/">> \o seg
        /\ Len(Segments(cArg.fn)) > 1 => cRet[1].path # cArg.fn

\* C11 witness: a save to ../ev.pdf was accepted and written to
\* <jobdir>/ev.pdf.
C11_Witness ==
    /\ cRet # <<>> /\ cRet[1].kind = "write"
    /\ cArg.fn = f_up_ev_pdf
    /\ cRet[1].path = JobDirStr \o <<"/", "e", "v">> \o e_pdf

\* C12: each writer accepts a save exactly when the lower-cased final segment
\* of the name ends in one of its permitted extensions - document writer
\* {.docx, .pdf}, slide writer {.pptx, .pdf}, canvas writer {.pdf} - and
\* raises ValueError otherwise.
C12_PermittedExtensions ==
    cRet # <<>> =>
        LET permitted == CASE cArg.writer = "doc"    -> {e_docx, e_pdf}
                           [] cArg.writer = "pptx"   -> {e_pptx, e_pdf}
                           [] cArg.writer = "canvas" -> {e_pdf}
            name == lower(FinalSegment(cArg.fn))
            ok == \E ext \in permitted :
                     /\ Len(ext) <= Len(name)
                     /\ \A i \in 1..Len(ext) : name[Len(name) - Len(ext) + i] = ext[i]
        IN  /\ ok <=> cRet[1].kind = "write"
            /\ ~ok <=> (cRet[1].kind = "raise" /\ cRet[1].exc = "ValueError")

\* The result messages a worker wrote itself: pickled tuples on the pipe
\* (bot.py), the status lines main prints (sandbox_runner.py).
OwnResults(out) == SelectSeq(out.sent, LAMBDA m : m.bytes \in {"pickle", "json"})

\* C13: in every success result of either worker, every listed path is a
\* file of the job's own directory with an extension of the permitted output
\* set, whatever files the script created, through a writer or with open().
C13_SuccessListsPermittedFiles ==
    cRet # <<>> =>
        \A i \in DOMAIN OwnResults(cRet[1]) :
            LET m == OwnResults(cRet[1])[i] IN
            m.value[1] = "success" =>
                \A k \in DOMAIN m.value[2].list :
                    /\ m.value[2].list[k].dir = 1
                    /\ lower(suffix(m.value[2].list[k].name)) \in
                          {e_docx, e_pptx, e_pdf, e_png, e_jpg, e_jpeg}

\* text contains name as a run of consecutive characters
Contains(text, name) ==
    \E i \in 1..(Len(text) - Len(name) + 1) : SubSeq(text, i, i + Len(name) - 1) = name

\* C14: for a job whose script imports a module the gate of bot.py denies
\* (socket), the outcome is "error" and the text handle_code shows to the
\* user contains the name of that module.
C14_DeniedImportNamed ==
    \A j \in Jobs :
        \A i \in DOMAIN script[j] :
            (/\ opc[j] = "done"
             /\ script[j][i].op = "import"
             /\ SplitFirst(script[j][i].name) \notin ALLOWED_MODULES) =>
                /\ result[j][1][1] = "error"
                /\ \E a \in Range(answers[j]) :
                      a.kind = "error" /\ Contains(a.text.str, script[j][i].name)

\* C16: a worker run that comes to its end - the script completed, raised,
\* or ended the process with SystemExit - has written exactly one message to
\* its result channel (the pipe of bot.py, the standard output of
\* sandbox_runner.py, where the script's own prints count).
C16_ExactlyOneMessage ==
    (cRet # <<>> /\ cRet[1].ends) => Len(cRet[1].sent) = 1

\* C17: the diagnostic string of an error result is no longer than DiagLimit
\* characters (the runner's limit for the message and room for an ordinary
\* class name), however long the exception's message and the name of the
\* exception's class are.
DiagLimit == RunnerMsgMax + 56

C17_DiagnosticBounded ==
    cRet # <<>> =>
        \A i \in DOMAIN OwnResults(cRet[1]) :
            LET m == OwnResults(cRet[1])[i] IN
            m.value[1] = "error" => Len(m.value[2].str) <= DiagLimit

\* C20: whenever a worker reports a result after the script completed or
\* raised, it has enumerated the files of the job directory before.
C20_AlwaysCollects ==
    (/\ cRet # <<>>
     /\ cRet[1].raisedIn \in {"none", "script"}
     /\ OwnResults(cRet[1]) # <<>>) => cRet[1].collected

\* C18: when safe_exec returned ("success", []), handle_code sends the one
\* notice that the code ran and created no files, and nothing else: no error
\* text, no document.
C18_EmptySuccessNotice ==
    \A j \in Jobs :
        (opc[j] = "done" /\ result[j][1] = <<"success", List(<<>>)>>) =>
            answers[j] = <<[kind |-> "no_files"]>>

\* C18 witness: a job whose worker sent a success with no files is done.
C18_Witness ==
    \E j \in Jobs : /\ opc[j] = "done"
                    /\ result[j][1] = <<"success", List(<<>>)>>
                    /\ answers[j] = <<[kind |-> "no_files"]>>

\* C19: when the outcome safe_exec returned is not a success (an error of the
\* script, of the launch, or the passed deadline), handle_code sends one error
\* text and no document, also when the script left files in the job
\* directory; and no deletion task naming files is created for it.
C19_NoFilesOnFailure ==
    \A j \in Jobs :
        (opc[j] = "done" /\ result[j][1][1] # "success") =>
            /\ Len(answers[j]) = 1
            /\ answers[j][1].kind = "error"
            /\ \A t \in tasks : t.job # j

\* C19 witness: a job whose script left out.pdf behind and whose outcome is
\* an error is done.
C19_Witness ==
    \E j \in Jobs : /\ opc[j] = "done"
                    /\ result[j][1][1] = "error"
                    /\ wout[j] # <<>> /\ wout[j][1].fs # {}
                    /\ answers[j][1].kind = "error"

\* C21: once the deferred deletion of a job has run, the job's directory
\* holds no file, whether the file was in the reported list or not.
C21_NothingLeftAfterDeletion ==
    \A t \in ranTasks : disk[t.job] = {}

\* C24: delete_files_after_delay leaves without an exception, removes exactly
\* the listed files (also when a listed path is missing, listed twice, or a
\* directory), leaves every other file of every job in place, and a second
\* run on the same list changes nothing.
C24_DeletionIdempotent ==
    \A i \in DOMAIN cRet :
        /\ cRet[i].exc = <<>>
        /\ \A j \in Jobs :
              cRet[i].disk[j] =
                  { n \in cArg.disk0[j] :
                      \A k \in DOMAIN cArg.paths :
                          ~(cArg.paths[k].dir = j /\ cArg.paths[k].name = n) }
        /\ cRet[i].disk = cRet[1].disk

\* C24 witness: the deletion ran twice on a list naming a file that existed
\* and a file that did not, while the other job's directory held a file.
C24_Witness ==
    /\ Len(cRet) = 2
    /\ cArg.paths = <<PathIn(1, f_out_pdf), PathIn(1, f_a_docx)>>
    /\ f_out_pdf \in cArg.disk0[1]
    /\ cArg.disk0[2] # {}
    /\ disk[2] = cArg.disk0[2]

\* C22: whenever a worker executed the script, it had installed the import
\* gate and wrapped every one of the three writers before.
C22_InstalledBeforeScript ==
    (cRet # <<>> /\ cRet[1].setup.ran) =>
        /\ cRet[1].setup.gate
        /\ cRet[1].setup.wrapped = Writers

\* C23: a writer's wrapper applied to the path a first application built
\* accepts it and builds the same path <jobdir>/<basename> again: no second
\* directory level, no change of the decision.
C23_ConfinementIdempotent ==
    Len(cRet) = 2 =>
        /\ cRet[2].kind = "write"
        /\ cRet[2].path = cRet[1].path
        /\ cRet[2].path = JobDirStr \o <<"/">> \o FinalSegment(cArg.fn)

\* C23 witness: ../ev.pdf confined twice.
C23_Witness ==
    /\ Len(cRet) = 2
    /\ cArg.fn = f_up_ev_pdf
    /\ cRet[2].kind = "write"

\* C25: a job that got past the status test of handle_code - it is waiting
\* for safe_exec, in it, or behind it, with or without a worker launched -
\* belongs to a sender whom get_user_status read as approved: an admin,
\* whatever the admin's row says, or a user whose row said approved at that
\* moment, whatever was done to the row before or after.
C25_OnlyApprovedLaunch ==
    \A j \in Jobs :
        (opc[j] \notin {"idle", "refused"} \/ alive[j] \/ wout[j] # <<>>) =>
            /\ seen[j] # <<>>
            /\ seen[j][1].status = "approved"
            /\ seen[j][1].user \in ADMIN_IDS \/ seen[j][1].row = "approved"

\* C25 witness: a worker was launched for a sender who is no admin and whose
\* row has been set to banned since.
C25_Witness ==
    \E j \in Jobs : /\ alive[j]
                    /\ seen[j][1].user \notin ADMIN_IDS
                    /\ status[seen[j][1].user] = "banned"

\* C26: in every step, every row's status is pending, approved or banned;
\* a row changes only by the admin action handled in that step, on that
\* user: approve turns pending into approved and nothing else, ban turns any
\* status into banned, reset turns a status other than banned into pending,
\* and a banned row changes only by unban, to pending.
C26_StatusTransitions ==
    [][\A u \in Users :
         /\ status'[u] \in {"none", "pending", "approved", "banned"}
         /\ (status[u] # "none" /\ status'[u] # status[u]) =>
               /\ lastAct' # <<>>
               /\ lastAct'[1].user = u
               /\ CASE lastAct'[1].act = "approve" ->
                         status[u] = "pending" /\ status'[u] = "approved"
                    [] lastAct'[1].act = "ban" -> status'[u] = "banned"
                    [] lastAct'[1].act = "unban" ->
                         status[u] = "banned" /\ status'[u] = "pending"
                    [] lastAct'[1].act = "reset" ->
                         status[u] # "banned" /\ status'[u] = "pending"
      ]_vars

====
